---- MODULE Spec2Model ----
(***************************************************************************)
(* A model of the ndn-tlv codec core: the VarNum codec, the criticality    *)
(* rule, the TlvEncode/TlvDecode instantiations of the core types, the     *)
(* scan-ahead locator find_tlv and the sequence decoder Vec<T>::decode.    *)
(*                                                                         *)
(* A u64 is kept as four 16-bit words, most significant first, so that     *)
(* every value of the 64-bit range is representable and the `as u8/u16/    *)
(* u32` truncations and the big-endian put_/get_ conversions are computed. *)
(* usize is taken to be 64 bits wide (VarNum -> usize is then the          *)
(* identity on the value, src/src/varnum.rs:84-88).                        *)
(***************************************************************************)
EXTENDS Integers, Sequences, FiniteSets, TLC

VARIABLES
    op,      \* the operation that was called ("idle" before any call)
    pc,      \* "idle" | "loop" (inside a while loop) | "done"
    input,   \* the arguments of the call
    bytes,   \* the caller's cursor: the octets that remain in it
    cur,     \* find_tlv's duplicate cursor `cur`
    ret,     \* Vec<T>::decode's accumulator `ret`
    local,   \* the other local variables of the call in progress, by name
    result   \* the value the call returned

vars == <<op, pc, input, bytes, cur, ret, local, result>>

----------------------------------------------------------------------------
(* Bounds of the model. *)

\* Octets that may trail a VarNum handed to VarNum::decode.
MaxTrail == 2

----------------------------------------------------------------------------
(* Octets, words and the u64 representation. *)

Octet == 0..255

\* u64 from a natural number below 2^31.
U64(n) == <<0, 0, n \div 65536, n % 65536>>

\* a <= b on u64 values.
Le(a, b) ==
    \/ a = b
    \/ \E i \in 1..4 : a[i] < b[i] /\ \A j \in 1..(i - 1) : a[j] = b[j]

\* lo <= v <= hi: one arm `lo..=hi` of a match on a u64.
InRange(v, lo, hi) == Le(lo, v) /\ Le(v, hi)

\* The truncating casts `as u8`, `as u16`, `as u32` of a u64.
AsU8(v) == v[4] % 256
AsU16(v) == v[4]
AsU32(v) == <<v[3], v[4]>>

\* Widening conversions into a VarNum (From<u8>, From<u16>, From<u32>).
FromU8(b) == <<0, 0, 0, b>>
FromU16(w) == <<0, 0, 0, w>>
FromU32(d) == <<0, 0, d[1], d[2]>>

\* BufMut::put_u8/put_u16/put_u32/put_u64: big-endian octets.
PutU8(b) == <<b>>
PutU16(w) == <<w \div 256, w % 256>>
PutU32(d) == PutU16(d[1]) \o PutU16(d[2])
PutU64(v) == PutU16(v[1]) \o PutU16(v[2]) \o PutU16(v[3]) \o PutU16(v[4])

\* The cursor after `n` octets were consumed (Buf::advance on a cursor that
\* holds at least n octets).
Drop(b, n) == SubSeq(b, n + 1, Len(b))
Take(b, n) == SubSeq(b, 1, n)

\* Buf::get_u8/get_u16/get_u32/get_u64: the value read and the cursor left.
\* Each panics when the cursor holds fewer octets than it reads.
Panic == [ok |-> FALSE, panic |-> TRUE]
Got(v, rest) == [ok |-> TRUE, value |-> v, rest |-> rest]
GetU8(b) == IF Len(b) < 1 THEN Panic ELSE Got(b[1], Drop(b, 1))
GetU16(b) == IF Len(b) < 2 THEN Panic ELSE Got(b[1] * 256 + b[2], Drop(b, 2))
GetU32(b) ==
    IF Len(b) < 4 THEN Panic
    ELSE Got(<<b[1] * 256 + b[2], b[3] * 256 + b[4]>>, Drop(b, 4))
GetU64(b) ==
    IF Len(b) < 8 THEN Panic
    ELSE Got(<<b[1] * 256 + b[2], b[3] * 256 + b[4],
               b[5] * 256 + b[6], b[7] * 256 + b[8]>>, Drop(b, 8))

----------------------------------------------------------------------------
(* TlvError and Result. *)

UnexpectedEndOfStream == [kind |-> "UnexpectedEndOfStream"]
UnexpectedLength == [kind |-> "UnexpectedLength"]
TypeMismatch(e, f) == [kind |-> "TypeMismatch", expected |-> e, found |-> f]

\* A decode's outcome: the Result and the cursor as the call left it.
Ok(v, rest) == [ok |-> TRUE, panic |-> FALSE, value |-> v, rest |-> rest]
Err(e, rest) == [ok |-> FALSE, panic |-> FALSE, error |-> e, rest |-> rest]
Panicked(rest) == [ok |-> FALSE, panic |-> TRUE, rest |-> rest]

IsOk(r) == r.ok
IsPanic(r) == r.panic
IsErr(r) == ~r.ok /\ ~r.panic

\* Ok(x.into()) of the u16, u32 or u64 a Buf::get_* read, which panicked
\* if the cursor `b` was too short for it.
OkU16(g, b) == IF g.ok THEN Ok(FromU16(g.value), g.rest) ELSE Panicked(b)
OkU32(g, b) == IF g.ok THEN Ok(FromU32(g.value), g.rest) ELSE Panicked(b)
OkU64(g, b) == IF g.ok THEN Ok(g.value, g.rest) ELSE Panicked(b)

----------------------------------------------------------------------------
(* VarNum (src/src/varnum.rs). *)

MarkerFD == 253
MarkerFE == 254
MarkerFF == 255

Max1 == U64(252)
Min3 == U64(253)
Max3 == U64(65535)
Min5 == <<0, 0, 1, 0>>
Max5 == <<0, 0, 65535, 65535>>

\* VarNum::size
VarNumSize(v) ==
    IF InRange(v, U64(0), Max1) THEN 1
    ELSE IF InRange(v, Min3, Max3) THEN 3
    ELSE IF InRange(v, Min5, Max5) THEN 5
    ELSE 9

\* VarNum::encode with the first arm's upper end off by one (0x00..=0xFD).
VarNumEncodeWideFirstArm(v) ==
    IF InRange(v, U64(0), U64(253)) THEN PutU8(AsU8(v))
    ELSE IF InRange(v, Min3, Max3) THEN PutU8(MarkerFD) \o PutU16(AsU16(v))
    ELSE IF InRange(v, Min5, Max5) THEN PutU8(MarkerFE) \o PutU32(AsU32(v))
    ELSE PutU8(MarkerFF) \o PutU64(v)

\* VarNum::encode writing the 4-octet field in little-endian word order.
VarNumEncodeSwapped(v) ==
    IF InRange(v, U64(0), Max1) THEN PutU8(AsU8(v))
    ELSE IF InRange(v, Min3, Max3) THEN PutU8(MarkerFD) \o PutU16(AsU16(v))
    ELSE IF InRange(v, Min5, Max5) THEN
        PutU8(MarkerFE) \o PutU16(v[4]) \o PutU16(v[3])
    ELSE PutU8(MarkerFF) \o PutU64(v)

\* VarNum::encode
VarNumEncode(v) ==
    IF InRange(v, U64(0), Max1) THEN PutU8(AsU8(v))
    ELSE IF InRange(v, Min3, Max3) THEN PutU8(MarkerFD) \o PutU16(AsU16(v))
    ELSE IF InRange(v, Min5, Max5) THEN PutU8(MarkerFE) \o PutU32(AsU32(v))
    ELSE PutU8(MarkerFF) \o PutU64(v)

\* VarNum::decode with a canonicity check: a field whose value the next
\* shorter form could hold is rejected.
VarNumDecodeCanonical(b) ==
    IF Len(b) <= 0 THEN Err(UnexpectedEndOfStream, b)
    ELSE
        LET g == GetU8(b)
            first == g.value
            rest == g.rest
            strict(r, min) ==
                IF r.ok /\ ~Le(min, r.value)
                THEN Err(UnexpectedLength, r.rest) ELSE r
        IN  IF first <= 252 THEN Ok(FromU8(first), rest)
            ELSE IF first = MarkerFD THEN
                IF Len(rest) < 2 THEN Err(UnexpectedEndOfStream, rest)
                ELSE strict(OkU16(GetU16(rest), rest), Min3)
            ELSE IF first = MarkerFE THEN
                IF Len(rest) < 4 THEN Err(UnexpectedEndOfStream, rest)
                ELSE strict(OkU32(GetU32(rest), rest), Min5)
            ELSE
                IF Len(rest) < 8 THEN Err(UnexpectedEndOfStream, rest)
                ELSE strict(OkU64(GetU64(rest), rest), <<0, 1, 0, 0>>)

\* VarNum::decode whose 0xFE arm checks for 2 remaining octets, not 4.
VarNumDecodeShortCheck(b) ==
    IF Len(b) <= 0 THEN Err(UnexpectedEndOfStream, b)
    ELSE
        LET g == GetU8(b)
            first == g.value
            rest == g.rest
        IN  IF first <= 252 THEN Ok(FromU8(first), rest)
            ELSE IF first = MarkerFD THEN
                IF Len(rest) < 2 THEN Err(UnexpectedEndOfStream, rest)
                ELSE OkU16(GetU16(rest), rest)
            ELSE IF first = MarkerFE THEN
                IF Len(rest) < 2 THEN Err(UnexpectedEndOfStream, rest)
                ELSE OkU32(GetU32(rest), rest)
            ELSE
                IF Len(rest) < 8 THEN Err(UnexpectedEndOfStream, rest)
                ELSE OkU64(GetU64(rest), rest)

\* VarNum::decode
VarNumDecode(b) ==
    IF Len(b) <= 0 THEN Err(UnexpectedEndOfStream, b)
    ELSE
        LET g == GetU8(b)
            first == g.value
            rest == g.rest
        IN  IF first <= 252 THEN Ok(FromU8(first), rest)
            ELSE IF first = MarkerFD THEN
                IF Len(rest) < 2 THEN Err(UnexpectedEndOfStream, rest)
                ELSE OkU16(GetU16(rest), rest)
            ELSE IF first = MarkerFE THEN
                IF Len(rest) < 4 THEN Err(UnexpectedEndOfStream, rest)
                ELSE OkU32(GetU32(rest), rest)
            ELSE
                IF Len(rest) < 8 THEN Err(UnexpectedEndOfStream, rest)
                ELSE OkU64(GetU64(rest), rest)

----------------------------------------------------------------------------
(* Inputs of the VarNum operations. *)

\* Values at and around every boundary of the four wire forms.
SampleValues ==
    { U64(0), U64(5), U64(252), U64(253), U64(254), U64(255), U64(256),
      U64(258), U64(65535), <<0, 0, 1, 0>>, <<0, 0, 258, 772>>,
      <<0, 0, 65535, 65535>>, <<0, 1, 0, 0>>, <<1, 0, 0, 5>>,
      <<258, 772, 1286, 1800>>, <<65535, 65535, 65535, 65535>> }

TrailOctets == {0, 255}
Trails == UNION { [1..n -> TrailOctets] : n \in 0..MaxTrail }

\* The wire form of width w (1, 3, 5 or 9 octets) of v: the marker of that
\* width followed by v as a big-endian field, for a v the field can hold.
Widths == {1, 3, 5, 9}
FitsWidth(v, w) ==
    CASE w = 1 -> Le(v, Max1)
      [] w = 3 -> Le(v, Max3)
      [] w = 5 -> Le(v, Max5)
      [] w = 9 -> TRUE
WireForm(v, w) ==
    CASE w = 1 -> <<v[4]>>
      [] w = 3 -> <<MarkerFD>> \o PutU16(v[4])
      [] w = 5 -> <<MarkerFE>> \o PutU32(<<v[3], v[4]>>)
      [] w = 9 -> <<MarkerFF>> \o PutU64(v)

----------------------------------------------------------------------------
(* The calls. *)

Idle == <<>>

Init ==
    /\ op = "idle"
    /\ pc = "idle"
    /\ input = Idle
    /\ bytes = <<>>
    /\ cur = <<>>
    /\ ret = <<>>
    /\ local = Idle
    /\ result = Idle

\* num.encode() and num.size() of a VarNum.
CallVarNumEncode ==
    /\ pc = "idle"
    /\ \E v \in SampleValues :
        /\ op' = "VarNum::encode"
        /\ input' = [value |-> v]
        /\ result' = [encoded |-> VarNumEncode(v), size |-> VarNumSize(v)]
    /\ pc' = "done"
    /\ UNCHANGED <<bytes, cur, ret, local>>

\* VarNum::decode(&mut bytes) on a cursor holding the first n octets of a
\* wire form of v followed by trailing octets.
CallVarNumDecode ==
    /\ pc = "idle"
    /\ \E v \in SampleValues, w \in Widths, t \in Trails :
        /\ FitsWidth(v, w)
        /\ \E n \in 0..(w + Len(t)) :
            LET buf == Take(WireForm(v, w) \o t, n)
                r == VarNumDecode(buf)
            IN  /\ op' = "VarNum::decode"
                /\ input' = [value |-> v, width |-> w, trail |-> t, buf |-> buf]
                /\ result' = r
                /\ bytes' = r.rest
    /\ pc' = "done"
    /\ UNCHANGED <<cur, ret, local>>

\* VarNum::decode(&mut encoded) of encoded = num.encode() followed by
\* trailing octets (the round trip of tests::simple_number .. number9).
CallVarNumRoundTrip ==
    /\ pc = "idle"
    /\ \E v \in SampleValues, t \in Trails :
        LET buf == VarNumEncode(v) \o t
            r == VarNumDecode(buf)
        IN  /\ op' = "VarNum::roundtrip"
            /\ input' = [value |-> v, trail |-> t, buf |-> buf]
            /\ result' = r
            /\ bytes' = r.rest
    /\ pc' = "done"
    /\ UNCHANGED <<cur, ret, local>>

NextVarNum == CallVarNumEncode \/ CallVarNumDecode \/ CallVarNumRoundTrip

SpecVarNum == Init /\ [][NextVarNum]_vars

----------------------------------------------------------------------------
(* Claims about VarNum. *)

\* C1: decoding VarNum(v).encode() followed by any trailing octets returns
\* Ok(v), consumes exactly VarNum(v).size() octets and leaves the trailing
\* octets in the cursor.
C1_RoundTrip ==
    op = "VarNum::roundtrip" =>
        /\ IsOk(result)
        /\ result.value = input.value
        /\ Len(input.buf) - Len(bytes) = VarNumSize(input.value)
        /\ bytes = input.trail

\* A 9-octet encoding followed by two octets was decoded.
C1_Witness ==
    /\ op = "VarNum::roundtrip"
    /\ Len(input.buf) = 11
    /\ Len(bytes) = 2
    /\ IsOk(result)
    /\ result.value = <<258, 772, 1286, 1800>>

\* The least width whose field holds v, by magnitude alone.
MinimalWidth(v) ==
    CHOOSE w \in Widths :
        /\ FitsWidth(v, w)
        /\ \A x \in Widths : FitsWidth(v, x) => w <= x

\* C2: encode emits the minimal of the four wire forms: the single octet v
\* up to 0xFC, else 0xFD/0xFE/0xFF followed by v as 2/4/8 big-endian octets,
\* whichever is the shortest that holds v.
C2_MinimalForm ==
    op = "VarNum::encode" =>
        LET v == input.value IN
        /\ result.encoded = WireForm(v, MinimalWidth(v))
        /\ Le(v, U64(252)) => result.encoded = <<v[4]>>
        /\ v \in {U64(253), U64(254), U64(255)} =>
                result.encoded = <<253, 0, v[4]>>
        /\ (~Le(v, U64(252)) /\ Le(v, U64(65535))) =>
                Len(result.encoded) = 3 /\ result.encoded[1] = 253
        /\ (~Le(v, U64(65535)) /\ v[1] = 0 /\ v[2] = 0) =>
                Len(result.encoded) = 5 /\ result.encoded[1] = 254
        /\ (v[1] # 0 \/ v[2] # 0) =>
                Len(result.encoded) = 9 /\ result.encoded[1] = 255

\* 0x01020304 was encoded as 0xFE 01 02 03 04.
C2_Witness ==
    /\ op = "VarNum::encode"
    /\ input.value = <<0, 0, 258, 772>>
    /\ result.encoded = <<254, 1, 2, 3, 4>>

\* C3: every complete wire form of v, minimal or wider, decodes to Ok(v).
C3_NonMinimalAccepted ==
    (op = "VarNum::decode" /\ Len(input.buf) >= input.width) =>
        /\ IsOk(result)
        /\ result.value = input.value
        /\ Len(input.buf) - Len(bytes) = input.width

\* The value 5 in the 9-octet form was decoded.
C3_Witness ==
    /\ op = "VarNum::decode"
    /\ input.value = U64(5)
    /\ input.width = 9
    /\ input.buf = <<255, 0, 0, 0, 0, 0, 0, 0, 5>>
    /\ IsOk(result)

\* The octets the marker `first` demands after it.
Demands(first) ==
    CASE first = 253 -> 2
      [] first = 254 -> 4
      [] first = 255 -> 8
      [] OTHER -> 0

\* C4: decode fails, with UnexpectedEndOfStream, exactly when the cursor is
\* empty or holds a marker followed by fewer octets than the marker demands;
\* otherwise it returns Ok; it never reads past the end of the cursor.
C4_Truncation ==
    op = "VarNum::decode" =>
        LET buf == input.buf
            short == buf = <<>> \/ Len(buf) - 1 < Demands(buf[1])
        IN  /\ ~IsPanic(result)
            /\ short => IsErr(result) /\ result.error = UnexpectedEndOfStream
            /\ ~short => IsOk(result)
            /\ Len(bytes) <= Len(buf)

\* 0xFF followed by seven octets was rejected.
C4_Witness ==
    /\ op = "VarNum::decode"
    /\ Len(input.buf) = 8
    /\ input.buf[1] = 255
    /\ IsErr(result)
    /\ result.error = UnexpectedEndOfStream

----------------------------------------------------------------------------
(* TlvEncode for the core types (src/src/lib.rs).                          *)
(*                                                                         *)
(* A value is a record tagged with its type.  A fixed-width integer holds  *)
(* its 16-bit words, most significant first (one word below 256 for u8);   *)
(* a signed integer holds its most significant word as a signed number.    *)
(* Option<T> holds <<>> for None and <<x>> for Some(x).                    *)

\* Elements of a Vec<T> in one encoded value.
MaxVecLen == 2
\* Octets of a [u8; N] or a Bytes value.
MaxOctets == 2

\* The bit pattern of a signed 8-bit / 16-bit number (`as u8`, put_i16).
Bits8(n) == (n + 256) % 256
Bits16(n) == (n + 65536) % 65536

\* NonNegativeInteger::new: the smallest variant that holds the value.
NonNegativeIntegerNew(v) ==
    IF Le(v, U64(255)) THEN
        [t |-> "NonNegativeInteger", variant |-> "U8", w |-> <<v[4]>>]
    ELSE IF Le(v, U64(65535)) THEN
        [t |-> "NonNegativeInteger", variant |-> "U16", w |-> <<v[4]>>]
    ELSE IF Le(v, Max5) THEN
        [t |-> "NonNegativeInteger", variant |-> "U32", w |-> <<v[3], v[4]>>]
    ELSE [t |-> "NonNegativeInteger", variant |-> "U64", w |-> v]

\* NonNegativeInteger::size
NonNegativeIntegerSize(x) ==
    CASE x.variant = "U8" -> 1
      [] x.variant = "U16" -> 2
      [] x.variant = "U32" -> 4
      [] x.variant = "U64" -> 8

\* NonNegativeInteger::encode with the U32 arm writing put_u16(n as u16).
NonNegativeIntegerEncodeNarrow(x) ==
    CASE x.variant = "U8" -> PutU8(x.w[1])
      [] x.variant = "U16" -> PutU16(x.w[1])
      [] x.variant = "U32" -> PutU16(x.w[2])
      [] x.variant = "U64" -> PutU64(x.w)

\* NonNegativeInteger::encode
NonNegativeIntegerEncode(x) ==
    CASE x.variant = "U8" -> PutU8(x.w[1])
      [] x.variant = "U16" -> PutU16(x.w[1])
      [] x.variant = "U32" -> PutU32(x.w)
      [] x.variant = "U64" -> PutU64(x.w)

\* size() of u8, i8, u16, i16, u32, i32, u64, i64.
IntSize(x) ==
    CASE x.t \in {"u8", "i8"} -> 1
      [] x.t \in {"u16", "i16"} -> 2
      [] x.t \in {"u32", "i32"} -> 4
      [] x.t \in {"u64", "i64"} -> 8

\* encode() of u8, i8, u16, i16, u32, i32, u64, i64: big-endian, the signed
\* ones in two's complement.
IntEncode(x) ==
    CASE x.t = "u8" -> <<x.w[1]>>
      [] x.t = "i8" -> <<Bits8(x.w[1])>>
      [] x.t = "u16" -> PutU16(x.w[1])
      [] x.t = "i16" -> PutU16(Bits16(x.w[1]))
      [] x.t = "u32" -> PutU32(x.w)
      [] x.t = "i32" -> PutU32(<<Bits16(x.w[1]), x.w[2]>>)
      [] x.t = "u64" -> PutU64(x.w)
      [] x.t = "i64" -> PutU64(<<Bits16(x.w[1]), x.w[2], x.w[3], x.w[4]>>)

IntTypes == {"u8", "i8", "u16", "i16", "u32", "i32", "u64", "i64"}

RECURSIVE Size(_), SizeSum(_)
\* TlvEncode::size of a value.
Size(x) ==
    CASE x.t = "VarNum" -> VarNumSize(x.w)
      [] x.t = "NonNegativeInteger" -> NonNegativeIntegerSize(x)
      [] x.t \in IntTypes -> IntSize(x)
      [] x.t = "array" -> Len(x.a)
      [] x.t = "Bytes" -> Len(x.a)
      [] x.t = "unit" -> 0
      [] x.t = "Option" -> IF x.some = <<>> THEN 0 ELSE Size(x.some[1])
      [] x.t = "Vec" -> SizeSum(x.items)
\* Vec<T>::size: the element sizes reduced with +, 0 for an empty Vec.
SizeSum(items) ==
    IF items = <<>> THEN 0
    ELSE IF Len(items) = 1 THEN Size(items[1])
    ELSE SizeSum(Take(items, Len(items) - 1)) + Size(items[Len(items)])

RECURSIVE Encode(_), EncodeAll(_)
\* TlvEncode::encode of a value.
Encode(x) ==
    CASE x.t = "VarNum" -> VarNumEncode(x.w)
      [] x.t = "NonNegativeInteger" -> NonNegativeIntegerEncode(x)
      [] x.t \in IntTypes -> IntEncode(x)
      [] x.t = "array" -> x.a
      [] x.t = "Bytes" -> x.a
      [] x.t = "unit" -> <<>>
      [] x.t = "Option" -> IF x.some = <<>> THEN <<>> ELSE Encode(x.some[1])
      [] x.t = "Vec" -> EncodeAll(x.items)
\* Vec<T>::encode: each item's encoding put into the buffer in order.
EncodeAll(items) ==
    IF items = <<>> THEN <<>>
    ELSE Encode(items[1]) \o EncodeAll(Drop(items, 1))

\* The values encoded, by element type.
OctetSeqs == UNION { [1..n -> TrailOctets] : n \in 0..MaxOctets }
BaseTypes == {"VarNum", "NonNegativeInteger", "array", "Bytes", "unit"}
                 \cup IntTypes
ValuesOf(ty) ==
    CASE ty = "VarNum" -> { [t |-> "VarNum", w |-> v] : v \in SampleValues }
      [] ty = "NonNegativeInteger" ->
            { NonNegativeIntegerNew(v) : v \in SampleValues }
            \cup { [t |-> "NonNegativeInteger", variant |-> "U32", w |-> <<0, 7>>],
                   [t |-> "NonNegativeInteger", variant |-> "U64", w |-> U64(7)],
                   [t |-> "NonNegativeInteger", variant |-> "U16", w |-> <<7>>] }
      [] ty = "array" -> { [t |-> "array", a |-> a] : a \in OctetSeqs }
      [] ty = "Bytes" -> { [t |-> "Bytes", a |-> a] : a \in OctetSeqs }
      [] ty = "unit" -> { [t |-> "unit"] }
      [] ty = "u8" -> { [t |-> "u8", w |-> <<n>>] : n \in {0, 7, 255} }
      [] ty = "i8" -> { [t |-> "i8", w |-> <<n>>] : n \in {-128, -1, 0, 127} }
      [] ty = "u16" -> { [t |-> "u16", w |-> <<n>>] : n \in {0, 258, 65535} }
      [] ty = "i16" -> { [t |-> "i16", w |-> <<n>>] : n \in {-32768, -2, 0, 32767} }
      [] ty = "u32" -> { [t |-> "u32", w |-> <<h, l>>] :
                            h \in {0, 258, 65535}, l \in {0, 772} }
      [] ty = "i32" -> { [t |-> "i32", w |-> <<h, l>>] :
                            h \in {-32768, -1, 0, 32767}, l \in {0, 772} }
      [] ty = "u64" -> { [t |-> "u64", w |-> v] : v \in SampleValues }
      [] ty = "i64" -> { [t |-> "i64", w |-> <<h, 0, 258, l>>] :
                            h \in {-32768, -1, 0, 32767}, l \in {0, 772} }
OptionsOf(S) ==
    { [t |-> "Option", some |-> <<>>] }
        \cup { [t |-> "Option", some |-> <<x>>] : x \in S }
VecsOf(S) ==
    { [t |-> "Vec", items |-> i] : i \in UNION { [1..n -> S] : n \in 0..MaxVecLen } }

Encoded(x) == [encoded |-> Encode(x), size |-> Size(x)]

\* x.encode() and x.size() of a value of a core type; of an Option or a Vec
\* of one; of a Vec of Options and of an Option of a Vec.
CallEncode ==
    /\ pc = "idle"
    /\ \E ty \in BaseTypes :
        \/ \E x \in ValuesOf(ty) : input' = x /\ result' = Encoded(x)
        \/ \E x \in OptionsOf(ValuesOf(ty)) : input' = x /\ result' = Encoded(x)
        \/ \E x \in VecsOf(ValuesOf(ty)) : input' = x /\ result' = Encoded(x)
        \/ /\ ty \in {"VarNum", "Bytes", "i16"}
           /\ \/ \E x \in VecsOf(OptionsOf(ValuesOf(ty))) :
                    input' = x /\ result' = Encoded(x)
              \/ \E x \in OptionsOf(VecsOf(ValuesOf(ty))) :
                    input' = x /\ result' = Encoded(x)
    /\ op' = "encode"
    /\ pc' = "done"
    /\ UNCHANGED <<bytes, cur, ret, local>>

NextEncode == CallEncode

SpecEncode == Init /\ [][NextEncode]_vars

RECURSIVE Sum(_)
Sum(ns) == IF ns = <<>> THEN 0 ELSE ns[1] + Sum(Drop(ns, 1))
RECURSIVE Concat(_)
Concat(ss) == IF ss = <<>> THEN <<>> ELSE ss[1] \o Concat(Drop(ss, 1))

\* C5: for every value of a core TlvEncode type, size() is the length of
\* encode(); a Vec's size is the sum of its elements' sizes and its encoding
\* the concatenation of their encodings in order; an Option's are those of
\* the value it holds, or empty.
C5_SizeIsEncodedLength ==
    op = "encode" =>
        /\ result.size = Len(result.encoded)
        /\ input.t = "Vec" =>
            /\ result.size = Sum([i \in 1..Len(input.items) |-> Size(input.items[i])])
            /\ result.encoded =
                   Concat([i \in 1..Len(input.items) |-> Encode(input.items[i])])
            /\ \A i \in 1..Len(input.items) :
                   Size(input.items[i]) = Len(Encode(input.items[i]))
        /\ input.t = "Option" =>
            IF input.some = <<>> THEN result.encoded = <<>>
            ELSE /\ result.encoded = Encode(input.some[1])
                 /\ result.size = Len(Encode(input.some[1]))

\* A Vec of two VarNums of different widths was encoded.
C5_Witness ==
    /\ op = "encode"
    /\ input.t = "Vec"
    /\ Len(input.items) = 2
    /\ input.items[1] = [t |-> "VarNum", w |-> U64(253)]
    /\ input.items[2] = [t |-> "VarNum", w |-> <<0, 1, 0, 0>>]
    /\ result.size = 12
    /\ Len(result.encoded) = 12

----------------------------------------------------------------------------
(* The criticality rule (src/src/tlv.rs). *)

\* Type numbers 0..MaxTyp are classified, and a few beyond 16 and 32 bits.
MaxTyp == 160

\* a < b on u64 values.
Lt(a, b) == Le(a, b) /\ a # b

\* The bitwise AND of two 16-bit words.
RECURSIVE BitAnd16(_, _, _)
BitAnd16(a, b, bits) ==
    IF bits = 0 THEN 0
    ELSE (a % 2) * (b % 2) + 2 * BitAnd16(a \div 2, b \div 2, bits - 1)

\* a & b on u64 values.
BitAnd(a, b) == [i \in 1..4 |-> BitAnd16(a[i], b[i], 16)]

\* tlv_typ_critical with the bound taken inclusively (typ <= 32).
TlvTypCriticalInclusive(typ) ==
    Le(typ, U64(32)) \/ BitAnd(typ, U64(1)) = U64(1)

\* tlv_typ_critical
tlv_typ_critical(typ) ==
    Lt(typ, U64(32)) \/ BitAnd(typ, U64(1)) = U64(1)

\* The record types the tests declare, with their assigned type numbers
\* (Tlv::TYP).
RecordTypes ==
    {"GenericNameComponent", "Name", "CanBePrefix", "VecPartial", "HasOption",
     "EnumTest", "HasGeneric"}
TYP(T) ==
    CASE T = "GenericNameComponent" -> U64(8)
      [] T = "Name" -> U64(7)
      [] T = "CanBePrefix" -> U64(33)
      [] T = "VecPartial" -> U64(129)
      [] T = "HasOption" -> U64(143)
      [] T = "EnumTest" -> U64(0)
      [] T = "HasGeneric" -> U64(130)

\* tlv_critical::<T>()
tlv_critical(T) == tlv_typ_critical(TYP(T))

TypeNumbers ==
    { U64(n) : n \in 0..MaxTyp }
        \cup { U64(65534), U64(65535), <<0, 0, 1, 0>>, <<0, 0, 1, 1>>,
               <<0, 1, 0, 0>>, <<0, 1, 0, 31>>, <<65535, 65535, 65535, 65534>>,
               <<65535, 65535, 65535, 65535>> }

\* tlv_typ_critical(typ)
CallTlvTypCritical ==
    /\ pc = "idle"
    /\ \E t \in TypeNumbers :
        /\ input' = [typ |-> t]
        /\ result' = [critical |-> tlv_typ_critical(t)]
    /\ op' = "tlv_typ_critical"
    /\ pc' = "done"
    /\ UNCHANGED <<bytes, cur, ret, local>>

\* tlv_critical::<T>() and T::critical()
CallTlvCritical ==
    /\ pc = "idle"
    /\ \E T \in RecordTypes :
        /\ input' = [T |-> T, typ |-> TYP(T)]
        /\ result' = [critical |-> tlv_critical(T)]
    /\ op' = "tlv_critical"
    /\ pc' = "done"
    /\ UNCHANGED <<bytes, cur, ret, local>>

NextCritical == CallTlvTypCritical \/ CallTlvCritical

SpecCritical == Init /\ [][NextCritical]_vars

\* t < 32 or t odd, on the words of t.
BelowThirtyTwoOrOdd(t) ==
    \/ t[1] = 0 /\ t[2] = 0 /\ t[3] = 0 /\ t[4] < 32
    \/ t[4] % 2 = 1

\* C6: tlv_typ_critical(t) is true exactly when t < 32 or t is odd, so every
\* even t >= 32 is non-critical; tlv_critical::<T>() classifies T::TYP.
C6_Criticality ==
    /\ op = "tlv_typ_critical" =>
          (result.critical <=> BelowThirtyTwoOrOdd(input.typ))
    /\ op = "tlv_critical" =>
          (result.critical <=> BelowThirtyTwoOrOdd(TYP(input.T)))

\* The even type 32 was classified as non-critical.
C6_Witness ==
    /\ op = "tlv_typ_critical"
    /\ input.typ = U64(32)
    /\ result.critical = FALSE

----------------------------------------------------------------------------
(* find_tlv (src/src/lib.rs). *)

\* Octets of a buffer handed to find_tlv.
MaxFindBuf == 5

\* cnt > n for a u64 cnt and a cursor length n.
Exceeds(cnt, n) == cnt[1] # 0 \/ cnt[2] # 0 \/ cnt[3] # 0 \/ cnt[4] > n

\* The outcome of one pass through the loop body: the loop goes on with the
\* cursors as left, or the function has returned.
Continue(b, c) == [pc |-> "loop", bytes |-> b, cur |-> c, result |-> Idle]

\* A return with the caller's cursor left where the duplicate stands.
ReturnAtDuplicate(r, c) == [pc |-> "done", bytes |-> c, cur |-> c, result |-> r]

\* A return: the caller's cursor is as the last commit left it.
Return(r, c) == [pc |-> "done", bytes |-> r.rest, cur |-> c, result |-> r]

\* bytes.advance(..) left out: the skipped span is never committed.
CommitNothing(b, c) == b

\* bytes.advance(bytes.remaining() - cur.remaining())
Commit(b, c) == Drop(b, Len(b) - Len(c))

\* The gate without the flag: every critical record is rejected.
RejectsEveryCritical(error_on_critical, found_typ) ==
    tlv_typ_critical(found_typ)

\* error_on_critical && tlv_typ_critical(found_typ.into())
Rejects(error_on_critical, found_typ) ==
    error_on_critical /\ tlv_typ_critical(found_typ)

\* The body of find_tlv's loop, entered with the caller's cursor b and the
\* duplicate c (which has remaining octets).  Bytes::advance panics when
\* asked to advance past the octets that remain.
FindTlvBody(b, c, typ, error_on_critical) ==
    LET found_typ == VarNumDecode(c) IN
    IF IsPanic(found_typ) THEN Return(Panicked(b), found_typ.rest)
    ELSE IF ~IsOk(found_typ) THEN Return(Err(found_typ.error, b), found_typ.rest)
    ELSE IF found_typ.value = typ THEN Return(Ok(<<>>, b), found_typ.rest)
    ELSE IF Rejects(error_on_critical, found_typ.value) THEN
        Return(Err(TypeMismatch(typ, found_typ.value), b), found_typ.rest)
    ELSE
        LET length == VarNumDecode(found_typ.rest) IN
        IF IsPanic(length) THEN Return(Panicked(b), length.rest)
        ELSE IF ~IsOk(length) THEN Return(Err(length.error, b), length.rest)
        ELSE IF Exceeds(length.value, Len(length.rest)) THEN
            Return(Panicked(b), length.rest)
        ELSE
            LET c2 == Drop(length.rest, length.value[4])
            IN  Continue(Commit(b, c2), c2)

FindOctets == {0, 1, 33, 126, 127, 253}
FindBuffers == UNION { [1..n -> FindOctets] : n \in 0..MaxFindBuf }
FindTypes == {"CanBePrefix", "EnumTest"}

\* find_tlv::<T>(&mut bytes, error_on_critical): `let mut cur = bytes.clone()`
CallFindTlv ==
    /\ pc = "idle"
    /\ \E buf \in FindBuffers, T \in FindTypes, flag \in BOOLEAN :
        /\ input' = [buf |-> buf, T |-> T, error_on_critical |-> flag]
        /\ bytes' = buf
        /\ cur' = buf
    /\ op' = "find_tlv"
    /\ pc' = "loop"
    /\ UNCHANGED <<ret, result, local>>

\* One test of `while cur.has_remaining()` and, if it holds, one pass through
\* the body; `Err(UnexpectedEndOfStream)` once the loop is left.
FindTlvLoop ==
    /\ op = "find_tlv"
    /\ pc = "loop"
    /\ LET s == IF cur # <<>>
                THEN FindTlvBody(bytes, cur, TYP(input.T), input.error_on_critical)
                ELSE Return(Err(UnexpectedEndOfStream, bytes), cur)
       IN  /\ pc' = s.pc
           /\ bytes' = s.bytes
           /\ cur' = s.cur
           /\ result' = s.result
    /\ UNCHANGED <<op, input, ret, local>>

NextFind == CallFindTlv \/ FindTlvLoop

SpecFind == Init /\ [][NextFind]_vars

----------------------------------------------------------------------------
(* Claims about find_tlv. *)

\* The octets of the complete record (type VarNum, length VarNum, `length`
\* octets of payload) that b starts with; 0 if b starts with none.
RecordLen(b) ==
    LET t == VarNumDecode(b) IN
    IF ~IsOk(t) THEN 0
    ELSE LET l == VarNumDecode(t.rest) IN
         IF ~IsOk(l) \/ Exceeds(l.value, Len(l.rest)) THEN 0
         ELSE (Len(b) - Len(l.rest)) + l.value[4]

\* b starts with a type VarNum of value typ.
StartsWithType(b, typ) ==
    LET t == VarNumDecode(b) IN IsOk(t) /\ t.value = typ

\* p is a sequence of complete records, none of type typ.
RECURSIVE OtherRecords(_, _)
OtherRecords(p, typ) ==
    \/ p = <<>>
    \/ /\ RecordLen(p) > 0
       /\ ~StartsWithType(p, typ)
       /\ OtherRecords(Drop(p, RecordLen(p)), typ)

Returned(f) == op = f /\ pc = "done"

\* C7: when find_tlv::<T> returns Ok, the caller's cursor starts at the header
\* of the first record of type T::TYP (the header is unconsumed), and what was
\* consumed is exactly the complete records before it, none of type T::TYP.
C7_FoundAtHeader ==
    (Returned("find_tlv") /\ IsOk(result)) =>
        LET consumed == Len(input.buf) - Len(bytes) IN
        /\ bytes = Drop(input.buf, consumed)
        /\ StartsWithType(bytes, TYP(input.T))
        /\ OtherRecords(Take(input.buf, consumed), TYP(input.T))

\* Two records were skipped and the cursor is at the type-33 header.
C7_Witness ==
    /\ Returned("find_tlv")
    /\ input.buf = <<126, 0, 0, 0, 33>>
    /\ input.T = "CanBePrefix"
    /\ ~input.error_on_critical
    /\ IsOk(result)
    /\ bytes = <<33>>

\* C8: a record of a type X other than T::TYP met by the scan makes find_tlv
\* fail with TypeMismatch{expected: T::TYP, found: X} exactly when
\* error_on_critical is set and X is critical (X < 32 or X odd); otherwise the
\* record is skipped and the scan goes on with the record after it.
C8_CriticalityGate ==
    [][ (op = "find_tlv" /\ pc = "loop" /\ cur # <<>>
            /\ IsOk(VarNumDecode(cur))
            /\ ~StartsWithType(cur, TYP(input.T))) =>
        LET X == VarNumDecode(cur).value
            gate == input.error_on_critical /\ BelowThirtyTwoOrOdd(X)
            mismatch == /\ pc' = "done"
                        /\ IsErr(result')
                        /\ result'.error = TypeMismatch(TYP(input.T), X)
        IN  /\ mismatch <=> gate
            /\ (RecordLen(cur) > 0 /\ ~gate) =>
                   /\ pc' = "loop"
                   /\ cur' = Drop(cur, RecordLen(cur))
                   /\ bytes' = cur'
      ]_vars

\* With error_on_critical set, the non-critical 126 was skipped and the
\* critical 127 after it was rejected.
C8_Witness ==
    /\ Returned("find_tlv")
    /\ input.buf = <<126, 0, 127, 0, 33>>
    /\ input.T = "CanBePrefix"
    /\ input.error_on_critical
    /\ IsErr(result)
    /\ result.error = TypeMismatch(U64(33), U64(127))

\* C9: find_tlv never panics, and when it returns neither Ok nor a
\* TypeMismatch (the data ran out: the buffer is empty, ends inside a type or
\* length VarNum, or a skipped record declares more octets than remain) it
\* returns Err(UnexpectedEndOfStream).
C9_EndOfDataIsError ==
    Returned("find_tlv") =>
        /\ ~IsPanic(result)
        /\ (~IsOk(result) /\ result.error.kind # "TypeMismatch") =>
               result.error = UnexpectedEndOfStream

----------------------------------------------------------------------------
(* Vec<T>::decode (src/src/lib.rs) and the element decoders it is run with. *)

\* Octets of a buffer handed to Vec<T>::decode.
MaxVecBuf == 6

\* <u16 as TlvDecode>::decode
U16Decode(b) ==
    IF Len(b) < 2 THEN Err(UnexpectedEndOfStream, b)
    ELSE LET g == GetU16(b) IN Ok(g.value, g.rest)

\* <Bytes as TlvDecode>::decode: the whole of the cursor.
BytesDecode(b) == Ok(b, <<>>)

\* The decode of a generated record type of type number typ whose one field
\* is a Bytes (GenericNameComponent): the type is read and checked, the
\* length is read, exactly `length` payload octets are isolated and the field
\* is decoded from them; a payload longer than the octets that remain is an
\* UnexpectedEndOfStream.
RecordDecode(typ, b) ==
    LET t == VarNumDecode(b) IN
    IF ~IsOk(t) THEN t
    ELSE IF t.value # typ THEN Err(TypeMismatch(typ, t.value), t.rest)
    ELSE
        LET length == VarNumDecode(t.rest) IN
        IF ~IsOk(length) THEN length
        ELSE IF Exceeds(length.value, Len(length.rest)) THEN
            Err(UnexpectedEndOfStream, length.rest)
        ELSE
            LET inner_data == Take(length.rest, length.value[4])
                name == BytesDecode(inner_data)
            IN  Ok([name |-> name.value], Drop(length.rest, length.value[4]))

\* <NonNegativeInteger as TlvDecode>::decode: the whole of a cursor of 1, 2,
\* 4 or 8 octets, and Err(UnexpectedLength) for a cursor of any other length.
NonNegativeIntegerDecode(b) ==
    CASE Len(b) = 1 ->
            Ok([t |-> "NonNegativeInteger", variant |-> "U8",
                w |-> <<GetU8(b).value>>], GetU8(b).rest)
      [] Len(b) = 2 ->
            Ok([t |-> "NonNegativeInteger", variant |-> "U16",
                w |-> <<GetU16(b).value>>], GetU16(b).rest)
      [] Len(b) = 4 ->
            Ok([t |-> "NonNegativeInteger", variant |-> "U32",
                w |-> GetU32(b).value], GetU32(b).rest)
      [] Len(b) = 8 ->
            Ok([t |-> "NonNegativeInteger", variant |-> "U64",
                w |-> GetU64(b).value], GetU64(b).rest)
      [] OTHER -> Err(UnexpectedLength, b)

\* <() as TlvDecode>::decode: Ok(()) with the cursor untouched.
UnitDecode(b) == Ok([t |-> "unit"], b)

\* The values of an Option<T>.
None == [t |-> "Option", some |-> <<>>]
Some(x) == [t |-> "Option", some |-> <<x>>]

\* The Option<U> types decoded here and the U of each.
OptionTypes ==
    {"Option<GenericNameComponent>", "Option<u16>", "Option<NonNegativeInteger>"}
Inner(T) ==
    CASE T = "Option<GenericNameComponent>" -> "GenericNameComponent"
      [] T = "Option<u16>" -> "u16"
      [] T = "Option<NonNegativeInteger>" -> "NonNegativeInteger"

RECURSIVE Decode(_, _)

\* The Err arms with the UnexpectedEndOfStream arm missing.
OptionOnErrEndReturned(e, b) ==
    IF e.kind = "TypeMismatch" THEN Ok(None, b) ELSE Err(e, b)

\* The Err arms of Option<T>::decode's match: TypeMismatch and
\* UnexpectedEndOfStream are Ok(None), any other error is returned; the
\* caller's cursor b was not touched.
OptionOnErr(e, b) ==
    IF e.kind \in {"TypeMismatch", "UnexpectedEndOfStream"} THEN Ok(None, b)
    ELSE Err(e, b)

\* <Option<T> as TlvDecode>::decode on the caller's cursor b: T::decode runs
\* on a duplicate, and the cursor advances by what it consumed when it
\* succeeded.
OptionDecode(T, b) ==
    LET remaining == Len(b)
        t == Decode(T, b)
    IN  IF IsPanic(t) THEN Panicked(b)
        ELSE IF IsOk(t) THEN
            Ok(Some(t.value), Drop(b, remaining - Len(t.rest)))
        ELSE OptionOnErr(t.error, b)

\* T::decode(&mut bytes_clone) for the element types the Vec is decoded with.
ElementTypes == {"GenericNameComponent", "u16", "VarNum", "NonNegativeInteger"}
Decode(T, b) ==
    CASE T = "GenericNameComponent" -> RecordDecode(TYP(T), b)
      [] T = "u16" -> U16Decode(b)
      [] T = "VarNum" -> VarNumDecode(b)
      [] T = "NonNegativeInteger" -> NonNegativeIntegerDecode(b)
      [] T = "unit" -> UnitDecode(b)
      [] T \in OptionTypes -> OptionDecode(Inner(T), b)

VecContinue(b, r) == [pc |-> "loop", bytes |-> b, ret |-> r, result |-> Idle]
VecReturn(res, r) == [pc |-> "done", bytes |-> res.rest, ret |-> r, result |-> res]

\* The Err arms with the TypeMismatch arm missing: every error is returned.
VecOnErrPropagate(e, b, r) == VecReturn(Err(e, b), r)

\* The Err arms of the match: a TypeMismatch ends the Vec, any other error
\* is returned.
VecOnErr(e, b, r) ==
    IF e.kind = "TypeMismatch" THEN VecReturn(Ok(r, b), r)
    ELSE VecReturn(Err(e, b), r)

\* The body of Vec<T>::decode's loop, entered with the caller's cursor b
\* (which has remaining octets) and the elements r collected so far.
VecDecodeBody(T, b, r) ==
    LET remaining == Len(b)
        t == Decode(T, b)
    IN  IF IsPanic(t) THEN VecReturn(Panicked(b), r)
        ELSE IF IsOk(t) THEN
            VecContinue(Drop(b, remaining - Len(t.rest)), Append(r, t.value))
        ELSE VecOnErr(t.error, b, r)

VecOctets == {0, 1, 8, 33, 253}
VecBuffers == UNION { [1..n -> VecOctets] : n \in 0..MaxVecBuf }

\* Vec::<T>::decode(&mut bytes): `let mut ret = Vec::new()`
CallVecDecode ==
    /\ pc = "idle"
    /\ \E buf \in VecBuffers, T \in ElementTypes :
        /\ input' = [buf |-> buf, T |-> T]
        /\ bytes' = buf
    /\ ret' = <<>>
    /\ op' = "Vec::decode"
    /\ pc' = "loop"
    /\ UNCHANGED <<cur, result, local>>

\* One test of `while bytes.has_remaining()` and, if it holds, one pass
\* through the body; `Ok(ret)` once the loop is left.
VecDecodeLoop ==
    /\ op = "Vec::decode"
    /\ pc = "loop"
    /\ LET s == IF bytes # <<>>
                THEN VecDecodeBody(input.T, bytes, ret)
                ELSE VecReturn(Ok(ret, bytes), ret)
       IN  /\ pc' = s.pc
           /\ bytes' = s.bytes
           /\ ret' = s.ret
           /\ result' = s.result
    /\ UNCHANGED <<op, input, cur, local>>

----------------------------------------------------------------------------
(* Option<T>::decode (src/src/lib.rs). *)

\* Octets of the cursor an Option<T> is decoded from.
MaxOptBuf == 4

OptionBuffers == UNION { [1..n -> VecOctets] : n \in 0..MaxOptBuf }

\* Option::<T>::decode(&mut bytes)
CallOptionDecode ==
    /\ pc = "idle"
    /\ \E buf \in OptionBuffers, T \in ElementTypes :
        /\ input' = [buf |-> buf, T |-> T]
        /\ result' = OptionDecode(T, buf)
    /\ bytes' = result'.rest
    /\ op' = "Option::decode"
    /\ pc' = "done"
    /\ UNCHANGED <<cur, ret, local>>

NextOption == CallOptionDecode

SpecOption == Init /\ [][NextOption]_vars

----------------------------------------------------------------------------
(* tests::Name::decode (src/src/tlv.rs): a record of type 7 whose payload is
   a Vec<GenericNameComponent>, decoded from a cursor restricted to the
   declared payload. *)

\* Octets of the data that follows the outer header.
MaxNameData == 5

\* bytes.copy_to_bytes(n) with the whole of the cursor handed on, whatever n.
CopyToBytesUnrestricted(b, n) == b

\* bytes.copy_to_bytes(n) on a cursor of at least n octets: the octets
\* handed to the callee (the caller's cursor is left with Drop(b, n)).
CopyToBytes(b, n) == Take(b, n)

NameReturn(r) ==
    [pc |-> "done", bytes |-> r.rest, local |-> Idle, result |-> r]

\* Name::decode up to the call of Vec::<GenericNameComponent>::decode: the
\* type is read from the caller's cursor and checked, the length is read and
\* `length` octets are moved to inner_data; copy_to_bytes panics when the
\* cursor holds fewer.
NameDecodeEnter(b) ==
    LET typ == VarNumDecode(b) IN
    IF ~IsOk(typ) THEN NameReturn(typ)
    ELSE IF typ.value # TYP("Name") THEN
        NameReturn(Err(TypeMismatch(TYP("Name"), typ.value), typ.rest))
    ELSE
        LET length == VarNumDecode(typ.rest) IN
        IF ~IsOk(length) THEN NameReturn(length)
        ELSE IF Exceeds(length.value, Len(length.rest)) THEN
            NameReturn(Panicked(length.rest))
        ELSE
            [pc |-> "loop",
             bytes |-> Drop(length.rest, length.value[4]),
             local |-> [inner_data |-> CopyToBytes(length.rest, length.value[4]),
                        components |-> Idle],
             result |-> Idle]

\* `let components = Vec::decode(&mut inner_data)?; Ok(Self { components })`
\* once Vec::decode has returned `components`, the caller's cursor being b.
NameResult(components, b) ==
    IF IsPanic(components) THEN Panicked(b)
    ELSE IF IsOk(components) THEN Ok([components |-> components.value], b)
    ELSE Err(components.error, b)

NameOctets == {0, 1, 8}
NameHeaders ==
    {<<>>, <<7>>, <<8, 0>>} \cup {<<7, n>> : n \in 0..(MaxNameData + 1)}
NameBuffers ==
    {h \o d : h \in NameHeaders,
              d \in UNION {[1..n -> NameOctets] : n \in 0..MaxNameData}}

\* Name::decode(&mut bytes) up to the first test of Vec::decode's loop.
CallNameDecode ==
    /\ pc = "idle"
    /\ \E buf \in NameBuffers :
        /\ input' = [buf |-> buf]
        /\ LET s == NameDecodeEnter(buf)
           IN  /\ pc' = s.pc
               /\ bytes' = s.bytes
               /\ local' = s.local
               /\ result' = s.result
    /\ ret' = <<>>
    /\ op' = "Name::decode"
    /\ UNCHANGED cur

\* One test of `while bytes.has_remaining()` of the Vec::decode that
\* Name::decode called on inner_data, with the loop body or the return after
\* the loop, and the rest of Name::decode when Vec::decode has returned.
NameDecodeLoop ==
    /\ op = "Name::decode"
    /\ pc = "loop"
    /\ LET s == IF local.inner_data # <<>>
                THEN VecDecodeBody("GenericNameComponent", local.inner_data, ret)
                ELSE VecReturn(Ok(ret, local.inner_data), ret)
       IN  /\ pc' = s.pc
           /\ ret' = s.ret
           /\ local' = [inner_data |-> s.bytes, components |-> s.result]
           /\ result' = IF s.pc = "done" THEN NameResult(s.result, bytes)
                                         ELSE Idle
    /\ UNCHANGED <<op, input, bytes, cur>>

NextVec == CallVecDecode \/ VecDecodeLoop \/ CallNameDecode \/ NameDecodeLoop

SpecVec == Init /\ [][NextVec]_vars

----------------------------------------------------------------------------
(* Vec<T>::decode for element types whose decode can succeed without
   consuming an octet: the unit type and Option<U>. *)

\* Octets of the cursor, and the elements collected beyond which the loop is
\* not followed.
MaxZeroBuf == 3
MaxCollected == 4

ZeroWidthTypes == {"unit"} \cup OptionTypes
ZeroWidthBuffers == UNION { [1..n -> VecOctets] : n \in 0..MaxZeroBuf }

\* Vec::<T>::decode(&mut bytes) for T = () and T = Option<U>
CallVecDecodeZeroWidth ==
    /\ pc = "idle"
    /\ \E buf \in ZeroWidthBuffers, T \in ZeroWidthTypes :
        /\ input' = [buf |-> buf, T |-> T]
        /\ bytes' = buf
    /\ ret' = <<>>
    /\ op' = "Vec::decode"
    /\ pc' = "loop"
    /\ UNCHANGED <<cur, result, local>>

\* The loop of Vec<T>::decode, followed while `ret` is short.
VecDecodeLoopShort ==
    /\ Len(ret) < MaxCollected
    /\ VecDecodeLoop

NextVecZeroWidth == CallVecDecodeZeroWidth \/ VecDecodeLoopShort

SpecVecZeroWidth == Init /\ [][NextVecZeroWidth]_vars

----------------------------------------------------------------------------
(* Tlv::from_reader (src/src/tlv.rs).

   The reader is the sequence of octets its source has yet to deliver.  A
   read into a slice of n octets delivers between 1 and n of them, fewer
   than n being a short read; it delivers 0 when the source is exhausted or
   n is 0; or it fails.  The sources carry length VarNums of one or three
   octets, so that total_len is below 2^17 and the additions that compute it
   cannot overflow.  An array is held as the prefix written so far, its other
   octets being the zeros it was initialised with. *)

\* Octets of a source.
MaxSource == 5
\* Octets of the assembled buffer beyond which no further read is followed.
MaxAssembled == 12

\* `let mut header_buf = [0; 18]` and `let mut buf = [0; 1024]`
HeaderBufLen == 18
ScratchLen == 1024

IOError == [kind |-> "IOError"]

\* &a[0..n] of an array whose written prefix is a.
Slice(a, n) == [i \in 1..n |-> IF i <= Len(a) THEN a[i] ELSE 0]

\* The array a after a read stored `data` at its front.
Store(a, data) == data \o Drop(a, Len(data))

\* The outcomes of reader.read(&mut slice) for a slice of n octets.
Read(reader, n) ==
    {[ok |-> FALSE, n |-> 0]} \cup
    {[ok |-> TRUE, n |-> k] :
        k \in IF reader = <<>> \/ n = 0 THEN {0}
              ELSE 1..(IF n < Len(reader) THEN n ELSE Len(reader))}

\* a - b on usize where the build does not check for overflow: modulo 2^64.
WrappingSub(a, b) ==
    IF a >= b THEN U64(a - b)
    ELSE <<65535, 65535, 65535, 65536 - (b - a)>>

\* `left_to_read -= bytes_read`, the read having returned n <= left_to_read
\* <= 1024 octets.
LeftAfter(left, n) == U64(left[4] - n)

\* bytes.put(&buf[..left_to_read])
PutLeft(b, buf, left) == b \o Slice(buf, left[4])

FromReaderReturn(r, b, l) ==
    [pc |-> "done", bytes |-> b, local |-> l, result |-> r]

\* from_reader up to the first test of the loop: the probe read r of 18
\* octets from `source`, the type and the length decoded from header_buf,
\* total_len, and left_to_read = total_len - bytes_read, which panics on
\* underflow when the build checks for overflow and wraps when not.
FromReaderEnter(T, source, r, overflow_checks) ==
    LET bytes_read == r.n
        reader == Drop(source, bytes_read)
        l0 == [reader |-> reader, reads |-> <<bytes_read>>]
        header_buf == Slice(Take(source, bytes_read), HeaderBufLen)
        typ == VarNumDecode(header_buf)
    IN  IF ~r.ok THEN
            FromReaderReturn(Err(IOError, <<>>), <<>>,
                             [reader |-> source, reads |-> <<>>])
        ELSE IF IsPanic(typ) THEN FromReaderReturn(Panicked(<<>>), <<>>, l0)
        ELSE IF ~IsOk(typ) THEN
            FromReaderReturn(Err(typ.error, <<>>), <<>>, l0)
        ELSE IF typ.value # TYP(T) THEN
            FromReaderReturn(Err(TypeMismatch(TYP(T), typ.value), <<>>), <<>>, l0)
        ELSE
            LET len == VarNumDecode(typ.rest) IN
            IF IsPanic(len) THEN FromReaderReturn(Panicked(<<>>), <<>>, l0)
            ELSE IF ~IsOk(len) THEN
                FromReaderReturn(Err(len.error, <<>>), <<>>, l0)
            ELSE
                LET total_len == VarNumSize(typ.value) + VarNumSize(len.value)
                                     + len.value[4]
                    b == Take(source, bytes_read)
                    l == [reader |-> reader, reads |-> <<bytes_read>>,
                          total_len |-> total_len,
                          left_to_read |-> WrappingSub(total_len, bytes_read),
                          buf |-> <<>>]
                IN  IF total_len < bytes_read /\ overflow_checks
                    THEN FromReaderReturn(Panicked(<<>>), b, l0)
                    ELSE [pc |-> "loop", bytes |-> b, local |-> l,
                          result |-> Idle]

\* One test of `while left_to_read > 0` with the loop body, the read having
\* had the outcome r, or with `Self::decode(&mut bytes.freeze())` after the
\* loop.  Slicing buf[0..left_to_read] panics beyond the array's 1024 octets.
FromReaderBody(T, b, l, r) ==
    IF l.left_to_read = U64(0) THEN FromReaderReturn(Decode(T, b), b, l)
    ELSE IF Exceeds(l.left_to_read, ScratchLen) THEN
        FromReaderReturn(Panicked(<<>>), b, l)
    ELSE IF ~r.ok THEN FromReaderReturn(Err(IOError, <<>>), b, l)
    ELSE
        LET bytes_read == r.n
            buf == Store(l.buf, Take(l.reader, bytes_read))
        IN  [pc |-> "loop",
             bytes |-> PutLeft(b, buf, l.left_to_read),
             local |-> [reader |-> Drop(l.reader, bytes_read),
                        reads |-> Append(l.reads, bytes_read),
                        total_len |-> l.total_len,
                        left_to_read |-> LeftAfter(l.left_to_read, bytes_read),
                        buf |-> buf],
             result |-> Idle]

SourceOctets == {0, 1, 2, 8, 253}
Sources == UNION { [1..n -> SourceOctets] : n \in 0..MaxSource }
ReaderTypes == {"GenericNameComponent"}

\* Self::from_reader(reader) up to the first test of the loop.
CallFromReader ==
    /\ pc = "idle"
    /\ \E source \in Sources, T \in ReaderTypes, overflow_checks \in BOOLEAN :
        /\ input' = [source |-> source, T |-> T,
                     overflow_checks |-> overflow_checks]
        /\ \E r \in Read(source, HeaderBufLen) :
            LET s == FromReaderEnter(T, source, r, overflow_checks)
            IN  /\ pc' = s.pc
                /\ bytes' = s.bytes
                /\ local' = s.local
                /\ result' = s.result
    /\ op' = "from_reader"
    /\ UNCHANGED <<cur, ret>>

FromReaderLoop ==
    /\ op = "from_reader"
    /\ pc = "loop"
    /\ local.left_to_read = U64(0) \/ Len(bytes) <= MaxAssembled
    /\ \E r \in Read(local.reader,
                      IF Exceeds(local.left_to_read, ScratchLen)
                      THEN 0 ELSE local.left_to_read[4]) :
        LET s == FromReaderBody(input.T, bytes, local, r)
        IN  /\ pc' = s.pc
            /\ bytes' = s.bytes
            /\ local' = s.local
            /\ result' = s.result
    /\ UNCHANGED <<op, input, cur, ret>>

NextReader == CallFromReader \/ FromReaderLoop

SpecReader == Init /\ [][NextReader]_vars

----------------------------------------------------------------------------
Next ==
    \/ NextVarNum \/ NextEncode \/ NextCritical \/ NextFind \/ NextVec
    \/ NextOption \/ NextVecZeroWidth \/ NextReader

Spec == Init /\ [][Next]_vars

----------------------------------------------------------------------------
(* Claims about Vec<T>::decode. *)

\* The octets of the longest run of complete records of type typ that b
\* starts with.
RECURSIVE LeadingRecords(_, _)
LeadingRecords(b, typ) ==
    IF RecordLen(b) > 0 /\ StartsWithType(b, typ)
    THEN RecordLen(b) + LeadingRecords(Drop(b, RecordLen(b)), typ)
    ELSE 0

\* The payloads of the complete records that p consists of, in wire order.
RECURSIVE Payloads(_)
Payloads(p) ==
    IF p = <<>> THEN <<>>
    ELSE LET n == RecordLen(p)
             len == VarNumDecode(VarNumDecode(p).rest)
         IN  <<[name |-> SubSeq(p, n - len.value[4] + 1, n)]>>
                 \o Payloads(Drop(p, n))

\* C10: on a cursor holding k >= 0 well-formed records of T followed by data
\* on which T::decode fails with TypeMismatch (a type other than T::TYP),
\* Vec<T>::decode returns Ok with exactly those k elements in wire order and
\* leaves the cursor at the first octet of the mismatching record.
C10_SequenceBackoff ==
    (Returned("Vec::decode") /\ input.T = "GenericNameComponent") =>
        LET k_octets == LeadingRecords(input.buf, TYP(input.T))
            after == Drop(input.buf, k_octets)
            t == VarNumDecode(after)
        IN  (IsOk(t) /\ t.value # TYP(input.T)) =>
                /\ IsOk(result)
                /\ result.value = Payloads(Take(input.buf, k_octets))
                /\ bytes = after
                /\ Len(input.buf) - Len(bytes) = k_octets

\* Two type-8 records, the first with a payload that looks like a header,
\* were collected and the cursor is at the type-33 record.
C10_Witness ==
    /\ Returned("Vec::decode")
    /\ input.T = "GenericNameComponent"
    /\ input.buf = <<8, 1, 33, 8, 0, 33>>
    /\ IsOk(result)
    /\ result.value = <<[name |-> <<33>>], [name |-> <<>>]>>
    /\ bytes = <<33>>

----------------------------------------------------------------------------
(* Claims about Vec<T>::decode on a restricted cursor. *)

\* The element that starts at c fails to decode as a T with an error other
\* than TypeMismatch.
FailedElement(T, c) ==
    /\ c # <<>>
    /\ IsErr(Decode(T, c))
    /\ Decode(T, c).error.kind # "TypeMismatch"

\* c starts with a header of type typ that declares more payload octets than
\* c holds after the header.
Overlength(c, typ) ==
    LET t == VarNumDecode(c)
        length == VarNumDecode(t.rest)
    IN  /\ IsOk(t) /\ t.value = typ
        /\ IsOk(length)
        /\ Exceeds(length.value, Len(length.rest))

\* The declared payload of the outer record b starts with, and the octets
\* of b beyond the outer record's declared boundary.
NamePayload(b) ==
    LET length == VarNumDecode(VarNumDecode(b).rest)
    IN  Take(length.rest, length.value[4])
NameBeyond(b) ==
    LET length == VarNumDecode(VarNumDecode(b).rest)
    IN  Drop(length.rest, length.value[4])

IsSuffix(c, b) == Len(c) <= Len(b) /\ c = Drop(b, Len(b) - Len(c))

\* C11: when an element's decode fails with an error other than
\* TypeMismatch, Vec<T>::decode returns that error and none of the elements
\* collected so far. Run by Name::decode on the cursor restricted to the
\* outer record's declared payload, it works within that payload only: the
\* caller's cursor stays at the declared boundary, an inner record that
\* declares more octets than the payload has left fails the whole decode
\* with UnexpectedEndOfStream, and the elements of a successful decode are
\* the records of the payload.
C11_Containment ==
    /\ (Returned("Vec::decode") /\ FailedElement(input.T, bytes)) =>
            result = Err(Decode(input.T, bytes).error, bytes)
    /\ (Returned("Name::decode") /\ local # Idle) =>
            LET payload == NamePayload(input.buf)
                at == local.inner_data
                T == "GenericNameComponent"
            IN  /\ bytes = NameBeyond(input.buf)
                /\ IsSuffix(at, payload)
                /\ FailedElement(T, at) =>
                        /\ local.components = Err(Decode(T, at).error, at)
                        /\ result = Err(Decode(T, at).error, bytes)
                /\ Overlength(at, TYP(T)) =>
                        result = Err(UnexpectedEndOfStream, bytes)
                /\ IsOk(result) =>
                        result.value.components =
                            Payloads(Take(payload, Len(payload) - Len(at)))

\* An outer record of declared length 4 holds one complete inner record and
\* one that declares an octet more than the payload has left, with that
\* octet present beyond the outer boundary: the collected element is
\* discarded and the decode fails with UnexpectedEndOfStream.
C11_Witness ==
    /\ Returned("Name::decode")
    /\ input.buf = <<7, 4, 8, 0, 8, 1, 0>>
    /\ ret = <<[name |-> <<>>]>>
    /\ local.inner_data = <<8, 1>>
    /\ result = Err(UnexpectedEndOfStream, <<0>>)

----------------------------------------------------------------------------
(* Claims about Option<T>::decode. *)

\* C12: when T::decode succeeds on the duplicate, Option<T>::decode returns
\* Some(value) and the caller's cursor has advanced by exactly the octets
\* T::decode consumed; when T::decode fails with TypeMismatch or
\* UnexpectedEndOfStream, it returns Ok(None) and the caller's cursor is the
\* cursor it was called with; any other error is returned as it is.
C12_OptionDecode ==
    Returned("Option::decode") =>
        LET t == Decode(input.T, input.buf) IN
        /\ IsOk(t) =>
                /\ IsOk(result) /\ result.value = Some(t.value)
                /\ bytes = t.rest
                /\ IsSuffix(bytes, input.buf)
        /\ (IsErr(t) /\ t.error.kind \in {"TypeMismatch", "UnexpectedEndOfStream"}) =>
                /\ IsOk(result) /\ result.value = None
                /\ bytes = input.buf
        /\ (IsErr(t) /\ t.error.kind \notin {"TypeMismatch", "UnexpectedEndOfStream"}) =>
                /\ IsErr(result) /\ result.error = t.error

\* A record whose header is complete and whose payload is cut short: the
\* record decoder consumed the header from the duplicate and failed with
\* UnexpectedEndOfStream; the result is None and the cursor is untouched.
C12_Witness ==
    /\ Returned("Option::decode")
    /\ input.T = "GenericNameComponent"
    /\ input.buf = <<8, 1>>
    /\ Decode(input.T, input.buf) = Err(UnexpectedEndOfStream, <<>>)
    /\ result = Ok(None, <<8, 1>>)
    /\ bytes = <<8, 1>>

----------------------------------------------------------------------------
(* Claims about Tlv::from_reader. *)

\* C13: a read that returns 0 octets while octets are still missing ends
\* from_reader with Err(UnexpectedEndOfStream): a zero-octet read is not
\* followed by another read.
C13_ZeroReadEndsReading ==
    [][(/\ op = "from_reader" /\ pc = "loop"
        /\ local.left_to_read # U64(0)
        /\ local'.reads = Append(local.reads, 0))
          => (pc' = "done" /\ result' = Err(UnexpectedEndOfStream, <<>>))]_vars

\* from_reader returned what Self::decode returned: no read failed and
\* nothing panicked.
DecodeReached ==
    /\ Returned("from_reader")
    /\ ~IsPanic(result)
    /\ ~(IsErr(result) /\ result.error = IOError)

\* C14: when the source starts with a complete record of type Self::TYP,
\* whatever the sizes of the reads, the buffer handed to Self::decode is the
\* octets of that record in source order and the result is Self::decode of
\* them.
C14_Assembly ==
    (/\ DecodeReached
     /\ RecordLen(input.source) > 0
     /\ StartsWithType(input.source, TYP(input.T))) =>
        LET record == Take(input.source, RecordLen(input.source))
        IN  /\ bytes = record
            /\ result = Decode(input.T, record)

\* C15: from_reader does not panic, and the count of octets still to read
\* never passes below zero, that is, never exceeds total_len.
C15_NeverFaults ==
    op = "from_reader" =>
        /\ pc = "done" => ~IsPanic(result)
        /\ pc = "loop" =>
                ~Exceeds(local.left_to_read, local.total_len)

----------------------------------------------------------------------------
(* Claims about the termination of Vec<T>::decode. *)

\* C16: every iteration of Vec<T>::decode's loop either returns or leaves
\* the cursor with strictly fewer octets than it had, also for T = () and
\* T = Option<U>.
C16_LoopProgress ==
    [][(op = "Vec::decode" /\ pc = "loop") =>
          (pc' = "done" \/ Len(bytes') < Len(bytes))]_vars

----------------------------------------------------------------------------
(* Claims about the cursor find_tlv leaves on an error. *)

\* C17: when find_tlv::<T> returns an error, what the caller's cursor has
\* consumed is exactly the complete records skipped before the failure, none
\* of type T::TYP, and the cursor stands at the first octet of the record
\* under examination: the record of the rejected type, or the record whose
\* type or length VarNum is cut short; or it is empty, the data having run
\* out between records.  No octet of a partly read header is consumed.
C17_ErrorCursor ==
    (Returned("find_tlv") /\ IsErr(result)) =>
        LET consumed == Len(input.buf) - Len(bytes)
            typ == TYP(input.T)
            t == VarNumDecode(bytes)
        IN  /\ bytes = Drop(input.buf, consumed)
            /\ OtherRecords(Take(input.buf, consumed), typ)
            /\ result.error.kind = "TypeMismatch" =>
                    /\ IsOk(t)
                    /\ result.error = TypeMismatch(typ, t.value)
                    /\ t.value # typ
            /\ result.error.kind # "TypeMismatch" =>
                    /\ result.error = UnexpectedEndOfStream
                    /\ \/ bytes = <<>>
                       \/ IsErr(t)
                       \/ IsOk(t) /\ t.value # typ /\ IsErr(VarNumDecode(t.rest))

\* One record was skipped and the next record's header ends after its type:
\* the duplicate read the type, the caller's cursor stands before it.
C17_Witness ==
    /\ Returned("find_tlv")
    /\ input.buf = <<126, 0, 127>>
    /\ input.T = "CanBePrefix"
    /\ ~input.error_on_critical
    /\ result = Err(UnexpectedEndOfStream, <<127>>)
    /\ bytes = <<127>>
    /\ cur = <<>>

====
